---- MODULE Spec2Model ----
(***************************************************************************)
(* A model of app.py: the configuration read from the environment, the     *)
(* process-wide model/tokenizer handle written by load_model, the three    *)
(* Flask handlers (health_check, generate, model_info) and the script      *)
(* entry point.  The transformers library and Flask's request parsing are  *)
(* external: every outcome they can produce is a choice made by \E.        *)
(***************************************************************************)
EXTENDS Integers, Sequences, FiniteSets, TLC

VARIABLES
    MODEL_NAME,          \* app.py:18
    MAX_TOKENS_DEFAULT,  \* app.py:21
    MAX_TOKENS_LIMIT,    \* app.py:22
    model,               \* app.py:25, the global written by load_model
    tokenizer,           \* app.py:26, the global written by load_model
    proc,                \* how the module runs and where the process is
    request,             \* the request handled last
    response,            \* the response returned for it
    calls,               \* the external calls made while handling it
    ref                  \* an earlier /generate call kept for comparison

vars == <<MODEL_NAME, MAX_TOKENS_DEFAULT, MAX_TOKENS_LIMIT, model, tokenizer,
          proc, request, response, calls, ref>>

config == <<MODEL_NAME, MAX_TOKENS_DEFAULT, MAX_TOKENS_LIMIT>>
handle == <<model, tokenizer>>

----------------------------------------------------------------------------
(* Bounds of the model. *)

\* largest value of MAX_TOKENS_DEFAULT and MAX_TOKENS_LIMIT drawn at start-up
MaxTokens == 2
\* longest prompt a client sends
MaxPromptLen == 1
\* longest text the decoder returns
MaxTextLen == 2

----------------------------------------------------------------------------
(* Text: a Python str is a sequence of one-character strings. *)

Alphabet == {"a", " "}

RECURSIVE StrsOfLen(_)
StrsOfLen(n) ==
    IF n = 0 THEN {<<>>}
    ELSE {<<c>> \o s : c \in Alphabet, s \in StrsOfLen(n - 1)}

StrsUpTo(n) == UNION {StrsOfLen(k) : k \in 0..n}

\* s[n:] for n >= 0: empty when n >= len(s)
SliceFrom(s, n) == IF n >= Len(s) THEN <<>> ELSE SubSeq(s, n + 1, Len(s))

\* s[:n]
SliceTo(s, n) == IF n >= Len(s) THEN s ELSE SubSeq(s, 1, n)

IsSpace(c) == c = " "

RECURSIVE LStrip(_)
LStrip(s) == IF s = <<>> \/ ~IsSpace(Head(s)) THEN s ELSE LStrip(Tail(s))

RECURSIVE RStrip(_)
RStrip(s) ==
    IF s = <<>> \/ ~IsSpace(s[Len(s)]) THEN s
    ELSE RStrip(SubSeq(s, 1, Len(s) - 1))

\* str.strip()
Strip(s) == RStrip(LStrip(s))

StartsWith(s, p) == Len(p) <= Len(s) /\ SliceTo(s, Len(p)) = p

----------------------------------------------------------------------------
(* JSON values as Python sees them after request.get_json(). *)

JAbsent == [t |-> "absent", v |-> 0]   \* the key is not in the dict
JNull == [t |-> "null", v |-> 0]       \* None
JInt(n) == [t |-> "int", v |-> n]
JStr(x) == [t |-> "str", v |-> x]
JBool(b) == [t |-> "bool", v |-> IF b THEN 1 ELSE 0]   \* True == 1

\* Python truthiness of a scalar JSON value
Truthy(v) ==
    CASE v.t = "int" -> v.v # 0
      [] v.t = "bool" -> v.v # 0
      [] v.t = "str" -> v.v # <<>>
      [] OTHER -> FALSE

\* The bodies a client posts to /generate.  kind is "none" (no JSON content
\* type or no body), "malformed" (JSON content type, undecodable body),
\* "value" (a JSON scalar, in val), "list" (its length in val) or "object"
\* (the keys the handler reads, and whether it holds any other key).
Body(kind, val, prompt, max_tokens, do_sample, temperature, top_p, other) ==
    [kind |-> kind, val |-> val, prompt |-> prompt, max_tokens |-> max_tokens,
     do_sample |-> do_sample, temperature |-> temperature, top_p |-> top_p,
     other |-> other]

NonObject(kind, val) ==
    Body(kind, val, JAbsent, JAbsent, JAbsent, JAbsent, JAbsent, FALSE)

NoBody == NonObject("none", JAbsent)

PromptValues ==
    {JAbsent, JNull, JInt(7)} \cup {JStr(p) : p \in StrsUpTo(MaxPromptLen)}

MaxTokensValues ==
    {JAbsent, JNull, JStr(<<"a">>)} \cup {JInt(n) : n \in 0..(MaxTokens + 1)}

\* do_sample, temperature and top_p as sent together
SamplingValues ==
    {<<JAbsent, JAbsent, JAbsent>>,
     <<JBool(TRUE), JInt(2), JAbsent>>,
     <<JBool(FALSE), JAbsent, JAbsent>>,
     <<JBool(FALSE), JInt(2), JNull>>}

ObjectBodies ==
    {Body("object", JAbsent, p, m, q[1], q[2], q[3], FALSE) :
        p \in PromptValues, m \in MaxTokensValues, q \in SamplingValues}
    \cup {Body("object", JAbsent, JAbsent, JAbsent, JAbsent, JAbsent, JAbsent, TRUE)}

NonObjectBodies ==
    {NoBody, NonObject("malformed", JAbsent)}
    \cup {NonObject("value", v) :
            v \in {JNull, JInt(0), JInt(1), JStr(<<>>), JStr(<<"a">>),
                   JBool(FALSE), JBool(TRUE)}}
    \cup {NonObject("list", JInt(n)) : n \in 0..1}

Bodies == ObjectBodies \cup NonObjectBodies

\* request.get_json() of Flask 2.3.3 (the version setup.py installs): it
\* raises UnsupportedMediaType when the request is not JSON and BadRequest
\* when the body does not decode; otherwise it returns the decoded value.
get_json(body) ==
    CASE body.kind = "none" ->
            [raised |-> TRUE, msg |-> "415 Unsupported Media Type"]
      [] body.kind = "malformed" ->
            [raised |-> TRUE, msg |-> "400 Bad Request"]
      [] OTHER -> [raised |-> FALSE, msg |-> ""]

\* `not data`
IsEmptyData(body) ==
    CASE body.kind = "value" -> ~Truthy(body.val)
      [] body.kind = "list" -> body.val.v = 0
      [] body.kind = "object" ->
            /\ ~body.other
            /\ \A v \in {body.prompt, body.max_tokens, body.do_sample,
                         body.temperature, body.top_p} : v = JAbsent
      [] OTHER -> TRUE

\* data.get(key, default) on a dict: the default replaces an absent key only
DictGet(v, default) == IF v = JAbsent THEN default ELSE v

----------------------------------------------------------------------------
(* The model/tokenizer handle. *)

NoneTokenizer == [isNone |-> TRUE, pad_token |-> "None", eos_token |-> "None"]
NoneModel == [isNone |-> TRUE, pad_token_id |-> "None", eos_token_id |-> "None"]

\* what AutoTokenizer.from_pretrained can return
PretrainedTokenizers ==
    {[isNone |-> FALSE, pad_token |-> p, eos_token |-> e] :
        p \in {"None", "<pad>"}, e \in {"None", "<eos>"}}

\* what AutoModelForCausalLM.from_pretrained returns for the checkpoint of
\* tokenizer t: its config names an eos id exactly when t has an eos token
PretrainedModel(t) ==
    [isNone |-> FALSE, pad_token_id |-> "None",
     eos_token_id |-> IF t.eos_token = "None" THEN "None" ELSE "eos_id"]

\* tokenizer.pad_token_id: None exactly when the pad token is None
PadTokenId(tok) == IF tok.pad_token = "None" THEN "None" ELSE "pad_id"

LoadOutcomes ==
    {[fail |-> "tokenizer", tok |-> NoneTokenizer, mdl |-> NoneModel]}
    \cup {[fail |-> "model", tok |-> t, mdl |-> NoneModel] :
            t \in PretrainedTokenizers}
    \cup {[fail |-> "none", tok |-> t, mdl |-> PretrainedModel(t)] :
            t \in PretrainedTokenizers}

\* load_model(): the globals it leaves and whether it re-raises.  o is what
\* the two from_pretrained calls do.
load_model(o) ==
    CASE o.fail = "tokenizer" ->
            [model |-> model, tokenizer |-> tokenizer, raised |-> TRUE]
      [] o.fail = "model" ->
            [model |-> model, tokenizer |-> o.tok, raised |-> TRUE]
      [] OTHER ->
            IF o.tok.pad_token = "None"
            THEN [model |-> [o.mdl EXCEPT !.pad_token_id = o.mdl.eos_token_id],
                  tokenizer |-> [o.tok EXCEPT !.pad_token = o.tok.eos_token],
                  raised |-> FALSE]
            ELSE [model |-> o.mdl, tokenizer |-> o.tok, raised |-> FALSE]

\* a slip: `and` for `or` in the check of the globals
NotLoadedBoth == model.isNone /\ tokenizer.isNone

NotLoaded == model.isNone \/ tokenizer.isNone

----------------------------------------------------------------------------
(* Responses: the status and the JSON object jsonify builds.  keys names   *)
(* the fields the object holds; a field it does not hold has its default.  *)

Response(status, keys) ==
    [status |-> status, keys |-> keys, error |-> "", response |-> <<>>,
     full_text |-> <<>>, model |-> "", tokens_generated |-> 0,
     pad_token |-> "", eos_token |-> ""]

NoResponse == Response(0, {})

ErrorResponse(status, text) ==
    [Response(status, {"error"}) EXCEPT !.error = text]

\* what Flask answers when an exception leaves a view function
InternalServerError == Response(500, {})

(* The external calls a handler made: which of the three were entered, and *)
(* the arguments model.generate received.                                  *)
NoCalls ==
    [tokenizer |-> FALSE, generate |-> FALSE, decode |-> FALSE,
     max_new_tokens |-> JAbsent, do_sample |-> JAbsent,
     temperature |-> JAbsent, top_p |-> JAbsent, pad_token_id |-> "None"]

(* What the transformers calls of one request do: the call that raises     *)
(* (stage, with str(e) in msg) or, when none does (stage "none"), the      *)
(* number n of new tokens and the decoded text.                            *)
Ext(stage, msg, n, text) == [stage |-> stage, msg |-> msg, n |-> n, text |-> text]

NoExt == Ext("unused", "", 0, <<>>)

Texts == StrsUpTo(MaxTextLen)

\* str(e) of the exceptions the library raises
TokenizerErrors == {"tokenizer error"}
GenerateErrors == {"generate error"}
DecodeErrors == {"decode error"}

\* Outcomes of tokenizer(prompt, padding=True), model.generate(...,
\* max_new_tokens=budget) and tokenizer.decode(...).  Padding needs a pad
\* token and the text must be a str; generate needs a model and returns at
\* most budget new tokens.
ExtOutcomes(prompt, budget) ==
    IF tokenizer.pad_token = "None"
    THEN {Ext("tokenizer", "Asking to pad but the tokenizer does not have a padding token", 0, <<>>)}
    ELSE IF prompt.t # "str"
    THEN {Ext("tokenizer", "text input must be of type str", 0, <<>>)}
    ELSE {Ext("tokenizer", m, 0, <<>>) : m \in TokenizerErrors}
         \cup (IF model.isNone
               THEN {Ext("generate", "'NoneType' object has no attribute 'generate'", 0, <<>>)}
               ELSE {Ext("generate", m, 0, <<>>) : m \in GenerateErrors}
                    \cup {Ext("decode", m, 0, <<>>) : m \in DecodeErrors}
                    \cup {Ext("none", "", n, t) : n \in 0..budget.v, t \in Texts})

----------------------------------------------------------------------------
(* generate(), app.py:56-112 *)

\* what the try block does: it returns a response or raises
Return(resp, c) == [raised |-> FALSE, msg |-> "", response |-> resp, calls |-> c]
Raise(msg, c) == [raised |-> TRUE, msg |-> msg, response |-> NoResponse, calls |-> c]

\* prompt = data.get("prompt", "")
prompt_of(body) == DictGet(body.prompt, JStr(<<>>))

\* a slip: the limit used as the default
max_tokens_of_limit(body) == DictGet(body.max_tokens, JInt(MAX_TOKENS_LIMIT))

\* max_tokens = data.get("max_tokens", MAX_TOKENS_DEFAULT)
max_tokens_of(body) == DictGet(body.max_tokens, JInt(MAX_TOKENS_DEFAULT))

\* max_tokens > MAX_TOKENS_LIMIT is defined for numbers only
Ordered(v) == v.t \in {"int", "bool"}

\* a slip: the limit is never applied
clamp_none(max_tokens) == max_tokens

\* if max_tokens > MAX_TOKENS_LIMIT: max_tokens = MAX_TOKENS_LIMIT
clamp(max_tokens) ==
    IF max_tokens.v > MAX_TOKENS_LIMIT THEN JInt(MAX_TOKENS_LIMIT) ELSE max_tokens

\* a slip: the request's do_sample is dropped and sampling is always on
do_sample_ignored(body) == JBool(TRUE)

do_sample_of(body) == DictGet(body.do_sample, JBool(TRUE))
temperature_of(body) == DictGet(body.temperature, JInt(1))
top_p_of(body) == DictGet(body.top_p, JInt(1))

\* a slip: the slice without the strip
response_text_unstripped(generated_text, prompt) ==
    SliceFrom(generated_text, Len(prompt))

\* response_text = generated_text[len(prompt):].strip()
response_text(generated_text, prompt) ==
    Strip(SliceFrom(generated_text, Len(prompt)))

\* len(outputs[0]) - len(inputs['input_ids'][0])
tokens_generated(output_len, input_len) == output_len - input_len

\* lines 59-80: the checks and the reading of the request.  ok means the
\* handler goes on to the library calls with the parsed request.
Rejected(r) ==
    [ok |-> FALSE, result |-> r, prompt |-> JAbsent, max_tokens |-> JAbsent,
     do_sample |-> JAbsent, temperature |-> JAbsent, top_p |-> JAbsent]

\* the arguments read from the request
ArgsRead(v) == <<v.ok, v.prompt, v.max_tokens, v.do_sample, v.temperature, v.top_p>>

validate(body) ==
    IF NotLoaded
    THEN Rejected(Return(ErrorResponse(500, "Model not loaded"), NoCalls))
    ELSE IF get_json(body).raised
    THEN Rejected(Raise(get_json(body).msg, NoCalls))
    ELSE IF IsEmptyData(body)
    THEN Rejected(Return(ErrorResponse(400, "No JSON data provided"), NoCalls))
    ELSE IF body.kind # "object"
    THEN Rejected(Raise("object has no attribute 'get'", NoCalls))
    ELSE IF ~Truthy(prompt_of(body))
    THEN Rejected(Return(ErrorResponse(400, "No prompt provided"), NoCalls))
    ELSE IF ~Ordered(max_tokens_of(body))
    THEN Rejected(Raise("'>' not supported between instances", NoCalls))
    ELSE [ok |-> TRUE, result |-> Return(NoResponse, NoCalls),
          prompt |-> prompt_of(body),
          max_tokens |-> clamp(max_tokens_of(body)),
          do_sample |-> do_sample_of(body),
          temperature |-> temperature_of(body),
          top_p |-> top_p_of(body)]

\* lines 82-108: tokenize, generate, decode, shape the response
run(v, ext, input_len) ==
    LET c1 == [NoCalls EXCEPT !.tokenizer = TRUE]
        c2 == [c1 EXCEPT !.generate = TRUE,
                         !.max_new_tokens = v.max_tokens,
                         !.do_sample = v.do_sample,
                         !.temperature = v.temperature,
                         !.top_p = v.top_p,
                         !.pad_token_id = PadTokenId(tokenizer)]
        c3 == [c2 EXCEPT !.decode = TRUE]
    IN  CASE ext.stage = "tokenizer" -> Raise(ext.msg, c1)
          [] ext.stage = "generate" -> Raise(ext.msg, c2)
          [] ext.stage = "decode" -> Raise(ext.msg, c3)
          [] OTHER ->
                Return([Response(200, {"response", "full_text", "model",
                                       "tokens_generated"})
                          EXCEPT !.response = response_text(ext.text, v.prompt.v),
                                 !.full_text = ext.text,
                                 !.model = MODEL_NAME,
                                 !.tokens_generated =
                                     tokens_generated(input_len + ext.n, input_len)],
                       c3)

\* the try block, lines 59-108
generate_try(body, ext, input_len) ==
    IF validate(body).ok THEN run(validate(body), ext, input_len)
    ELSE validate(body).result

\* a slip: no except clause, the exception leaves the view function
generate_uncaught(body, ext, input_len) ==
    LET r == generate_try(body, ext, input_len)
    IN  [response |-> IF r.raised THEN InternalServerError ELSE r.response,
         calls |-> r.calls, model |-> model, tokenizer |-> tokenizer]

\* a slip: the except clause drops the model after a failure
generate_unloads(body, ext, input_len) ==
    LET r == generate_try(body, ext, input_len)
    IN  [response |-> IF r.raised
                      THEN ErrorResponse(500, "Generation failed: " \o r.msg)
                      ELSE r.response,
         calls |-> r.calls,
         model |-> IF r.raised THEN NoneModel ELSE model,
         tokenizer |-> tokenizer]

\* the handler with its except clause, lines 110-112: what it answers, the
\* library calls it made, and the globals it leaves
generate(body, ext, input_len) ==
    LET r == generate_try(body, ext, input_len)
    IN  [response |-> IF r.raised
                      THEN ErrorResponse(500, "Generation failed: " \o r.msg)
                      ELSE r.response,
         calls |-> r.calls,
         model |-> model,
         tokenizer |-> tokenizer]

----------------------------------------------------------------------------
(* health_check(), app.py:46-53, and model_info(), app.py:114-126 *)

health_check ==
    [response |-> [Response(200, {"status", "model", "version"})
                      EXCEPT !.model = MODEL_NAME],
     calls |-> NoCalls, model |-> model, tokenizer |-> tokenizer]

model_info ==
    [response |->
        IF NotLoaded THEN ErrorResponse(500, "Model not loaded")
        ELSE [Response(200, {"model_name", "vocab_size", "model_max_length",
                             "pad_token", "eos_token"})
                 EXCEPT !.model = MODEL_NAME,
                        !.pad_token = tokenizer.pad_token,
                        !.eos_token = tokenizer.eos_token],
     calls |-> NoCalls, model |-> model, tokenizer |-> tokenizer]

----------------------------------------------------------------------------
(* The process. *)

ModelNames == {"gpt2"}
TokenConfigs == 0..MaxTokens
\* longest tokenized prompt
MaxInputLen == 2

Request(endpoint, body) == [endpoint |-> endpoint, body |-> body]
NoRequest == Request("none", NoBody)

Proc(mode, phase, code) == [mode |-> mode, phase |-> phase, exit_code |-> code]

\* ref holds at most one earlier call: its body, the arguments read from
\* it, what the library did and the response
NoRef == <<>>

Kept(body, ext, resp) ==
    <<[body |-> body, args |-> ArgsRead(validate(body)), ext |-> ext,
       response |-> resp]>>

\* The module is run as a script (python app.py) or imported by a program
\* that serves app itself; the configuration is read from the environment.
Init ==
    /\ MODEL_NAME \in ModelNames
    /\ MAX_TOKENS_DEFAULT \in TokenConfigs
    /\ MAX_TOKENS_LIMIT \in TokenConfigs
    /\ model = NoneModel
    /\ tokenizer = NoneTokenizer
    /\ proc \in {Proc("script", "start", 0), Proc("import", "serving", 0)}
    /\ request = NoRequest
    /\ response = NoResponse
    /\ calls = [c |-> NoCalls, ext |-> NoExt]
    /\ ref = NoRef

\* __main__, lines 129-131 and 136-139: load_model(), exit(1) when it raises
main_load ==
    /\ proc = Proc("script", "start", 0)
    /\ \E o \in LoadOutcomes :
         LET r == load_model(o)
         IN  /\ model' = r.model
             /\ tokenizer' = r.tokenizer
             /\ proc' = IF r.raised THEN Proc("script", "exited", 1)
                        ELSE Proc("script", "loaded", 0)
    /\ UNCHANGED <<config, request, response, calls, ref>>

\* __main__, lines 133-139: app.run() serves, or raises and the process exits
main_run ==
    /\ proc = Proc("script", "loaded", 0)
    /\ \E started \in BOOLEAN :
         proc' = IF started THEN Proc("script", "serving", 0)
                 ELSE Proc("script", "exited", 1)
    /\ UNCHANGED <<config, handle, request, response, calls, ref>>

\* load_model() called by the importing program between two requests; the
\* caller keeps running when it raises
load_model_call ==
    /\ proc.mode = "import"
    /\ request = NoRequest
    /\ \E o \in LoadOutcomes :
         LET r == load_model(o)
         IN  /\ model' = r.model
             /\ tokenizer' = r.tokenizer
    /\ ref' = NoRef
    /\ UNCHANGED <<config, proc, request, response, calls>>

Serving == proc.phase = "serving" /\ request = NoRequest

\* what a handler leaves behind
Handled(req, h, ext) ==
    /\ request' = req
    /\ response' = h.response
    /\ calls' = [c |-> h.calls, ext |-> ext]
    /\ model' = h.model
    /\ tokenizer' = h.tokenizer
    /\ UNCHANGED <<config, proc, ref>>

GetHealth ==
    /\ Serving
    /\ Handled(Request("GET /", NoBody), health_check, NoExt)

GetModelInfo ==
    /\ Serving
    /\ Handled(Request("GET /model-info", NoBody), model_info, NoExt)

\* The library as a function: a call with do_sample false and the arguments
\* of the call kept in ref does what it did then.
Outcomes(v) ==
    IF ~v.ok THEN {NoExt}
    ELSE IF ref # NoRef /\ v.do_sample = JBool(FALSE) /\ ArgsRead(v) = ref[1].args
    THEN {ref[1].ext}
    ELSE ExtOutcomes(v.prompt, v.max_tokens)

PostGenerate(B) ==
    /\ Serving
    /\ \E body \in B :
         \E ext \in Outcomes(validate(body)) :
           \E input_len \in 1..MaxInputLen :
             Handled(Request("POST /generate", body),
                     generate(body, ext, input_len), ext)

\* the response is sent and the server waits for the next request
ResponseSent ==
    /\ request # NoRequest
    /\ request' = NoRequest
    /\ response' = NoResponse
    /\ calls' = [c |-> NoCalls, ext |-> NoExt]
    /\ UNCHANGED <<config, handle, proc, ref>>

Next ==
    \/ main_load
    \/ main_run
    \/ load_model_call
    \/ GetHealth
    \/ GetModelInfo
    \/ PostGenerate(Bodies)
    \/ ResponseSent

Spec == Init /\ [][Next]_vars

----------------------------------------------------------------------------
(* Repeated calls: the same process, where a finished /generate call with  *)
(* do_sample false may be kept in ref and later calls compared with it.    *)

\* the requests of the comparison: greedy calls that differ in max_tokens,
\* a sampled call, a malformed and an empty one
DetBodies ==
    {Body("object", JAbsent, JStr(<<"a">>), m, d, JAbsent, JAbsent, FALSE) :
        m \in {JAbsent, JInt(MaxTokens + 1)}, d \in {JBool(FALSE)}}
    \cup {Body("object", JAbsent, JStr(<<"a">>), JAbsent, JAbsent, JAbsent, JAbsent, FALSE),
          Body("object", JAbsent, JAbsent, JAbsent, JBool(FALSE), JAbsent, JAbsent, FALSE),
          NoBody}

KeepCall ==
    /\ request.endpoint = "POST /generate"
    /\ request.body.do_sample = JBool(FALSE)
    /\ ref' = Kept(request.body, calls.ext, response)
    /\ request' = NoRequest
    /\ response' = NoResponse
    /\ calls' = [c |-> NoCalls, ext |-> NoExt]
    /\ UNCHANGED <<config, handle, proc>>

NextDet ==
    \/ main_load
    \/ main_run
    \/ load_model_call
    \/ GetHealth
    \/ GetModelInfo
    \/ PostGenerate(DetBodies)
    \/ ResponseSent
    \/ KeepCall

SpecDet == Init /\ [][NextDet]_vars

----------------------------------------------------------------------------
(* The claims. *)

IsGenerate == request.endpoint = "POST /generate"
IsModelInfo == request.endpoint = "GET /model-info"
HandleUnset == model.isNone \/ tokenizer.isNone
ModelNotLoaded == ErrorResponse(500, "Model not loaded")
LibraryRaised == calls.ext.stage \in {"tokenizer", "generate", "decode"}
IsJsonBody == request.body.kind \in {"value", "list", "object"}
PromptText == request.body.prompt.v

\* C1: a POST /generate whose JSON body is absent or empty, or whose prompt
\* is absent or the empty string, is answered 400 with "No JSON data
\* provided" (body) or "No prompt provided" (prompt), and the generator is
\* not invoked.  Stated for a loaded model: an unloaded one answers 500
\* before the body is read (C2).
C1_MissingBodyOrPromptIs400 ==
    (IsGenerate /\ ~HandleUnset) =>
        /\ (request.body.kind = "none" \/ (IsJsonBody /\ IsEmptyData(request.body)))
              => /\ response = ErrorResponse(400, "No JSON data provided")
                 /\ ~calls.c.generate
        /\ (/\ request.body.kind = "object"
            /\ ~IsEmptyData(request.body)
            /\ request.body.prompt \in {JAbsent, JStr(<<>>)})
              => /\ response = ErrorResponse(400, "No prompt provided")
                 /\ ~calls.c.generate

\* C2: while model or tokenizer is None, POST /generate and GET /model-info
\* answer 500 {"error": "Model not loaded"} and call neither the tokenizer
\* nor the generator.
C2_UnloadedIs500 ==
    (HandleUnset /\ (IsGenerate \/ IsModelInfo)) =>
        /\ response = ModelNotLoaded
        /\ calls.c = NoCalls

\* the tokenizer was set by a load that failed on the model, and a well-formed
\* generation request was answered
C2_Witness ==
    /\ IsGenerate
    /\ ~tokenizer.isNone /\ model.isNone
    /\ request.body.prompt = JStr(<<"a">>)
    /\ response = ModelNotLoaded

\* C3: with a loaded model, a non-empty prompt and an integer max_tokens
\* above MAX_TOKENS_LIMIT the request is not rejected: the handler goes on
\* to the library, the generator (reached unless the tokenizer raises) is
\* given max_new_tokens = MAX_TOKENS_LIMIT, and tokens_generated of a
\* success does not exceed MAX_TOKENS_LIMIT.
C3_OverLimitIsClamped ==
    (/\ IsGenerate /\ ~HandleUnset
     /\ request.body.kind = "object"
     /\ Truthy(request.body.prompt)
     /\ request.body.max_tokens.t = "int"
     /\ request.body.max_tokens.v > MAX_TOKENS_LIMIT) =>
        /\ response.status # 400
        /\ calls.c.tokenizer
        /\ (calls.ext.stage # "tokenizer") =>
              (calls.c.generate /\ calls.c.max_new_tokens = JInt(MAX_TOKENS_LIMIT))
        /\ (response.status = 200) =>
              response.tokens_generated <= MAX_TOKENS_LIMIT

\* a request over the limit succeeded with exactly the limit's tokens
C3_Witness ==
    /\ IsGenerate
    /\ request.body.max_tokens.t = "int"
    /\ request.body.max_tokens.v > MAX_TOKENS_LIMIT
    /\ MAX_TOKENS_LIMIT >= 1
    /\ response.status = 200
    /\ response.tokens_generated = MAX_TOKENS_LIMIT

OmitsMaxTokens ==
    /\ IsGenerate /\ ~HandleUnset
    /\ request.body.kind = "object"
    /\ Truthy(request.body.prompt)
    /\ request.body.max_tokens = JAbsent
    /\ calls.c.generate

\* C4 as claimed: a request that omits max_tokens gives the generator
\* max_new_tokens = MAX_TOKENS_DEFAULT, whatever the configuration.
C4_DefaultIsPassed ==
    OmitsMaxTokens => calls.c.max_new_tokens = JInt(MAX_TOKENS_DEFAULT)

\* C4 as amended: a request that omits max_tokens gives the generator
\* max_new_tokens = min(MAX_TOKENS_DEFAULT, MAX_TOKENS_LIMIT): the default
\* when it does not exceed the limit, the limit otherwise.
C4_DefaultIsClamped ==
    OmitsMaxTokens =>
        calls.c.max_new_tokens =
            JInt(IF MAX_TOKENS_DEFAULT <= MAX_TOKENS_LIMIT
                 THEN MAX_TOKENS_DEFAULT ELSE MAX_TOKENS_LIMIT)

\* the default exceeds the limit and the generator was called for a request
\* without max_tokens
C4_Witness ==
    /\ OmitsMaxTokens
    /\ MAX_TOKENS_DEFAULT > MAX_TOKENS_LIMIT
    /\ calls.c.max_new_tokens = JInt(MAX_TOKENS_LIMIT)

\* C5: an exception raised by the tokenizer, the generator or the decoder is
\* answered 500 with error "Generation failed: <message>" and nothing else
\* in the object, and the process keeps serving.
C5_LibraryErrorIs500 ==
    (IsGenerate /\ LibraryRaised) =>
        /\ response = ErrorResponse(500, "Generation failed: " \o calls.ext.msg)
        /\ response.keys = {"error"}
        /\ proc.phase = "serving"
        /\ ENABLED ResponseSent

\* the decoder raised after the tokenizer and the generator had run
C5_Witness ==
    /\ IsGenerate
    /\ calls.ext.stage = "decode"
    /\ calls.c.decode
    /\ response.status = 500

\* C6: a 500 from POST /generate comes from an unset handle or from an
\* exception raised inside the tokenize/generate/decode calls; reading and
\* validating a JSON body never produces one.
C6_ValidationNever500 ==
    (IsGenerate /\ IsJsonBody /\ response.status = 500) =>
        (HandleUnset \/ LibraryRaised)

\* the decoded text with the prompt's length cut off its front
Remainder == SliceFrom(response.full_text, Len(PromptText))

Succeeded ==
    /\ IsGenerate
    /\ response.status = 200
    /\ request.body.prompt.t = "str"

\* C7 as claimed: when the decoded text begins with the prompt, full_text is
\* the prompt followed by response, and response is the decoded text without
\* its first len(prompt) characters.
C7_FullTextIsPromptPlusResponse ==
    (Succeeded /\ StartsWith(response.full_text, PromptText)) =>
        /\ response.full_text = PromptText \o response.response
        /\ response.response = Remainder

\* C7 as amended: response is the decoded text without its first len(prompt)
\* characters and without leading and trailing whitespace; when the decoded
\* text begins with the prompt, full_text = prompt + response exactly when
\* that remainder neither starts nor ends with whitespace.
C7_ResponseIsStrippedRemainder ==
    Succeeded =>
        /\ response.response = Strip(Remainder)
        /\ StartsWith(response.full_text, PromptText) =>
              ((response.full_text = PromptText \o response.response)
                  <=> (\/ Remainder = <<>>
                       \/ /\ ~IsSpace(Remainder[1])
                          /\ ~IsSpace(Remainder[Len(Remainder)])))

\* the decoded text is the prompt followed by whitespace
C7_Witness ==
    /\ Succeeded
    /\ StartsWith(response.full_text, PromptText)
    /\ Remainder # <<>>
    /\ IsSpace(Remainder[1])
    /\ response.full_text # PromptText \o response.response

\* C8: a POST /generate with do_sample false whose body equals that of an
\* earlier call is answered as that call was (status, response, full_text,
\* tokens_generated and every other field), whatever was handled in between.
C8_RepeatIsIdentical ==
    (ref # NoRef /\ IsGenerate /\ request.body = ref[1].body) =>
        response = ref[1].response

\* a greedy call succeeded, and so did its repetition
C8_Witness ==
    /\ ref # NoRef /\ IsGenerate
    /\ request.body = ref[1].body
    /\ ref[1].response.status = 200
    /\ response.status = 200
    /\ response.tokens_generated >= 1

\* C9: no step changes the configuration, and a step that handles or
\* finishes a request leaves model and tokenizer as they were: the handle
\* changes only in a step of load_model.
C9_HandlersOnlyRead ==
    [][/\ config' = config
       /\ (handle' # handle) =>
             (request = NoRequest /\ request' = NoRequest)]_vars

\* a generation failed inside the library and the handle is still loaded
C9_Witness ==
    /\ IsGenerate
    /\ calls.ext.stage = "generate"
    /\ response.status = 500
    /\ ~HandleUnset

\* C10 without the pad token: run as a script, nothing is served before
\* load_model has returned, a failed start exits with status 1, and every
\* request sees model and tokenizer set and is never answered "Model not
\* loaded".
ScriptServesLoaded ==
    (proc.mode = "script") =>
        /\ (proc.phase # "serving") => request = NoRequest
        /\ (proc.phase = "exited") => proc.exit_code = 1
        /\ (request # NoRequest) => (~HandleUnset /\ response # ModelNotLoaded)

\* C10: as above, and every request sees a tokenizer with a pad token set.
C10_ScriptServesLoadedWithPad ==
    /\ ScriptServesLoaded
    /\ (proc.mode = "script" /\ request # NoRequest) => tokenizer.pad_token # "None"

====
